---- MODULE Spec2Model ----
(***************************************************************************)
(* iptvctl: the schedule registry kept in the user's crontab                *)
(* (crontab_manager.py) and the next-run calculator.                        *)
(*                                                                         *)
(* Python str values are TLA+ strings; TLC evaluates Len, \o and SubSeq on  *)
(* them, so every string function of the source is computed character by    *)
(* character.  A datetime is the number of seconds since 00:00:00 of a      *)
(* Monday (day 0), so weekday() is (t \div 86400) % 7 with Monday = 0.       *)
(***************************************************************************)
EXTENDS Integers, Sequences, FiniteSets, TLC

VARIABLES
    table,     \* the text `crontab -l` prints: the user's job table
    lastOp,    \* the last completed Registry call and what it returned
    prevOp,    \* the Registry call completed before lastOp
    nops,      \* how many Registry calls have completed
    calc,      \* the last calculate_next_run / get_all_schedules evaluation
    timer_end_time,  \* app.py global: when the manual timer ends, NoTime for None
    timer_thread,    \* app.py global: the thread set_timer started last, 0 for None
    marker,    \* whether the file /tmp/iptv_manual_timer exists
    clock,     \* time.time(), in minutes
    threads,   \* the delayed_on_off threads: where each one is
    req,       \* the request being handled: which handler, and where it is
    lastReq,   \* the request that returned last and what it returned, until the next begins
    hist,      \* what the properties need to know of the past
    calls      \* Registry calls in flight between their load and their save

timerVars == <<timer_end_time, timer_thread, marker, clock, threads, req, lastReq, hist>>

vars == <<table, lastOp, prevOp, nops, calc, timer_end_time, timer_thread, marker,
          clock, threads, req, lastReq, hist, calls>>

(***************************************************************************)
(* Python str primitives                                                    *)
(***************************************************************************)
Char(s, i) == SubSeq(s, i, i)

\* the characters str.strip() and str.split() treat as whitespace
Whitespace == {" ", "\t", "\n", "\r", "\f"}

startswith(s, p) == Len(p) <= Len(s) /\ SubSeq(s, 1, Len(p)) = p

endswith(s, p) == Len(p) <= Len(s) /\ SubSeq(s, Len(s) - Len(p) + 1, Len(s)) = p

\* needle in hay
contains(hay, needle) ==
    \E i \in 1..(Len(hay) - Len(needle) + 1) :
        SubSeq(hay, i, i + Len(needle) - 1) = needle

\* index of the first character at or after i that is not in chars, Len(s)+1 if none
SkipIn(s, chars, i) ==
    CHOOSE k \in i..(Len(s) + 1) :
        /\ k = Len(s) + 1 \/ Char(s, k) \notin chars
        /\ \A j \in i..(k - 1) : Char(s, j) \in chars

\* index of the last character at or before j that is not in chars, 0 if none
SkipBack(s, chars, j) ==
    LET d == CHOOSE n \in 0..j :
                 /\ n = j \/ Char(s, j - n) \notin chars
                 /\ \A m \in (j - n + 1)..j : Char(s, m) \in chars
    IN  j - d

\* s.lstrip(chars)
lstrip(s, chars) == SubSeq(s, SkipIn(s, chars, 1), Len(s))

\* s.strip()
strip(s) == SubSeq(s, SkipIn(s, Whitespace, 1), SkipBack(s, Whitespace, Len(s)))

\* index of the first occurrence of old in s at or after i, 0 if none
Find(s, old, i) ==
    LET last   == Len(s) - Len(old) + 1
        At(k)  == SubSeq(s, k, k + Len(old) - 1) = old
        first  == CHOOSE k \in i..(last + 1) :
                      /\ k = last + 1 \/ At(k)
                      /\ \A j \in i..(k - 1) : ~At(j)
    IN  IF i > last \/ first = last + 1 THEN 0 ELSE first

\* s.replace(old, new) for a non-empty old: every non-overlapping occurrence,
\* scanning from the left
RECURSIVE ReplaceFrom(_, _, _, _)
ReplaceFrom(s, old, new, i) ==
    LET k == Find(s, old, i) IN
    IF k = 0 THEN SubSeq(s, i, Len(s))
    ELSE SubSeq(s, i, k - 1) \o new \o ReplaceFrom(s, old, new, k + Len(old))

replace(s, old, new) == ReplaceFrom(s, old, new, 1)

\* s.split(sep) for a one-character sep: always at least one piece
RECURSIVE SplitFrom(_, _, _)
SplitFrom(s, sep, i) ==
    LET k == Find(s, sep, i) IN
    IF k = 0 THEN <<SubSeq(s, i, Len(s))>>
    ELSE <<SubSeq(s, i, k - 1)>> \o SplitFrom(s, sep, k + 1)

split(s, sep) == SplitFrom(s, sep, 1)

\* index of the first whitespace character at or after i, Len(s)+1 if none
WordEnd(s, i) ==
    CHOOSE k \in i..(Len(s) + 1) :
        /\ k = Len(s) + 1 \/ Char(s, k) \in Whitespace
        /\ \A j \in i..(k - 1) : Char(s, j) \notin Whitespace

\* s.split(): the maximal runs of non-whitespace characters
RECURSIVE WordsFrom(_, _)
WordsFrom(s, i) ==
    LET b == SkipIn(s, Whitespace, i) IN
    IF b > Len(s) THEN <<>>
    ELSE LET e == WordEnd(s, b) IN <<SubSeq(s, b, e - 1)>> \o WordsFrom(s, e)

split_ws(s) == WordsFrom(s, 1)

\* sep.join(parts)
RECURSIVE join(_, _)
join(sep, parts) ==
    IF Len(parts) = 0 THEN ""
    ELSE IF Len(parts) = 1 THEN parts[1]
    ELSE parts[1] \o sep \o join(sep, Tail(parts))

(***************************************************************************)
(* hash(line) & 0x7FFFFFFF.  CPython's str hash is a keyed hash fixed for   *)
(* the life of the process; it is modelled by a position-weighted sum over *)
(* character positions in Alphabet with HashMod outcomes, all of them       *)
(* within the 31 bits the mask keeps (TLC's integers end at 2^31 - 1).      *)
(***************************************************************************)
HashMod == 65521

Alphabet ==
    " \t#*,-./0123456789=&_:\"ABCDEFGHIJKLMNOPQRSTUVWXYZabcdefghijklmnopqrstuvwxyz"

\* the position of each character in Alphabet
OrdTable ==
    [c \in {Char(Alphabet, i) : i \in 1..Len(Alphabet)} |->
        CHOOSE i \in 1..Len(Alphabet) : Char(Alphabet, i) = c]

Ord(c) == OrdTable[c]

\* the hash of the characters lo..hi, each weighted by its position
RECURSIVE HashRange(_, _, _)
HashRange(s, lo, hi) ==
    IF lo > hi THEN 0
    ELSE IF lo = hi THEN (Ord(Char(s, lo)) * (1 + ((lo * 131) % 251))) % HashMod
    ELSE LET mid == (lo + hi) \div 2 IN
         (HashRange(s, lo, mid) + HashRange(s, mid + 1, hi)) % HashMod

py_hash_id(line) == (HashRange(line, 1, Len(line)) + Len(line)) % HashMod

(***************************************************************************)
(* crontab_manager.py: parsing and serialising job lines                    *)
(***************************************************************************)
\* Python's None
None == [isNone |-> TRUE]

\* os.path.dirname(os.path.abspath(__file__)): where the program is installed
get_script_dir == "/opt/iptvctl"

\* os.path.join(get_script_dir(), 'check_and_off.sh')
script_path == get_script_dir \o "/" \o "check_and_off.sh"

parse_crontab_line(line) ==
    LET enabled    == ~startswith(strip(line), "#")
        clean_line == strip(lstrip(line, {"#", " "}))
        parts      == split_ws(clean_line)
    IN  IF Len(parts) < 6 THEN None
        ELSE LET command == join(" ", SubSeq(parts, 6, Len(parts)))
                 action  == IF contains(command, "up") THEN "on"
                            ELSE IF contains(command, "check_and_off") THEN "off"
                            ELSE "off"
             IN  [id      |-> py_hash_id(line),
                  minute  |-> parts[1],
                  hour    |-> parts[2],
                  day     |-> parts[3],
                  month   |-> parts[4],
                  weekday |-> parts[5],
                  action  |-> action,
                  command |-> command,
                  enabled |-> enabled,
                  raw     |-> line]

\* the test of extract_iptv_schedules on one stripped, non-empty line
is_iptv_line(line) ==
    LET clean_line == strip(replace(line, "#", "")) IN
    \/ contains(line, "ip link set ens1")
    \/ contains(clean_line, "ip link set ens1")
    \/ contains(line, "check_and_off.sh")
    \/ contains(clean_line, "check_and_off.sh")

RECURSIVE ExtractFrom(_, _)
ExtractFrom(lines, i) ==
    IF i > Len(lines) THEN <<>>
    ELSE LET line     == strip(lines[i])
             schedule == parse_crontab_line(line)
         IN  IF line = "" THEN ExtractFrom(lines, i + 1)
             ELSE IF is_iptv_line(line) /\ schedule # None
                  THEN <<schedule>> \o ExtractFrom(lines, i + 1)
                  ELSE ExtractFrom(lines, i + 1)

extract_iptv_schedules(crontab_content) ==
    ExtractFrom(split(crontab_content, "\n"), 1)

\* schedule.get(key, default) on a dict modelled as a record
dict_get(schedule, key, default) ==
    IF key \in DOMAIN schedule THEN schedule[key] ELSE default

\* mutant of build_crontab_line: an off schedule keeps the caller's command
build_crontab_line_caller(schedule) ==
    LET command == dict_get(schedule, "command", "/sbin/ip link set ens1 up")
        line    == schedule.minute \o " " \o schedule.hour \o " " \o schedule.day
                   \o " " \o schedule.month \o " " \o schedule.weekday
                   \o " " \o command
    IN  IF ~dict_get(schedule, "enabled", TRUE) THEN "# " \o line ELSE line

\* build_crontab_line in a program installed in script_dir
build_crontab_line_at(script_dir, schedule) ==
    LET command == IF dict_get(schedule, "action", None) = "off"
                   THEN script_dir \o "/" \o "check_and_off.sh"
                   ELSE dict_get(schedule, "command", "/sbin/ip link set ens1 up")
        line    == schedule.minute \o " " \o schedule.hour \o " " \o schedule.day
                   \o " " \o schedule.month \o " " \o schedule.weekday
                   \o " " \o command
    IN  IF ~dict_get(schedule, "enabled", TRUE) THEN "# " \o line ELSE line

build_crontab_line(schedule) == build_crontab_line_at(get_script_dir, schedule)

(***************************************************************************)
(* crontab_manager.py: the next-run calculator                              *)
(***************************************************************************)
\* the value calculate_next_run returns for None (instants are >= 0)
NoTime == -1

\* datetime.max: later than every instant of the model
datetime_max == 2000000000

Digits == "0123456789"

RECURSIVE DigitsValue(_, _, _)
DigitsValue(s, i, acc) ==
    IF i > Len(s) THEN acc
    ELSE DigitsValue(s, i + 1, acc * 10 + (Find(Digits, Char(s, i), 1) - 1))

\* int(s): [ok |-> FALSE] stands for the ValueError
py_int(s) ==
    LET signed == Len(s) > 0 /\ Char(s, 1) \in {"+", "-"}
        body   == IF signed THEN SubSeq(s, 2, Len(s)) ELSE s
    IN  IF Len(body) = 0 \/ \E i \in 1..Len(body) : ~contains(Digits, Char(body, i))
        THEN [ok |-> FALSE, val |-> 0]
        ELSE [ok |-> TRUE,
              val |-> IF signed /\ Char(s, 1) = "-"
                      THEN 0 - DigitsValue(body, 1, 0)
                      ELSE DigitsValue(body, 1, 0)]

\* mutant of cron_to_python_weekday: the crontab number is kept
cron_to_python_weekday_same(cron_wd) == cron_wd

cron_to_python_weekday(cron_wd) ==
    IF cron_wd = 0 THEN 6 ELSE cron_wd - 1

\* mutant of RangeDays: the end of the range is left out, range(a, b)
RECURSIVE RangeDays_open(_, _)
RangeDays_open(a, b) ==
    IF a >= b THEN <<>>
    ELSE <<cron_to_python_weekday(a)>> \o RangeDays_open(a + 1, b)

\* [cron_to_python_weekday(i) for i in range(a, b + 1)]
RECURSIVE RangeDays(_, _)
RangeDays(a, b) ==
    IF a > b THEN <<>>
    ELSE <<cron_to_python_weekday(a)>> \o RangeDays(a + 1, b)

\* the body of parse_weekday's loop from part i on; ok = FALSE is an exception
RECURSIVE WeekdayParts(_, _)
WeekdayParts(parts, i) ==
    IF i > Len(parts) THEN [ok |-> TRUE, days |-> <<>>]
    ELSE LET part == parts[i]
             rest == WeekdayParts(parts, i + 1)
         IN  IF contains(part, "-")
             THEN LET ends == split(part, "-") IN
                  IF Len(ends) # 2 \/ ~py_int(ends[1]).ok \/ ~py_int(ends[2]).ok
                  THEN [ok |-> FALSE, days |-> <<>>]
                  ELSE [ok   |-> rest.ok,
                        days |-> RangeDays(py_int(ends[1]).val, py_int(ends[2]).val)
                                 \o rest.days]
             ELSE IF ~py_int(part).ok THEN [ok |-> FALSE, days |-> <<>>]
                  ELSE [ok   |-> rest.ok,
                        days |-> <<cron_to_python_weekday(py_int(part).val)>>
                                 \o rest.days]

parse_weekday(weekday_str) ==
    IF weekday_str = "*" THEN [ok |-> TRUE, days |-> <<0, 1, 2, 3, 4, 5, 6>>]
    ELSE WeekdayParts(split(weekday_str, ","), 1)

\* datetime.weekday(): Monday is 0
weekday_of(t) == (t \div 86400) % 7

InList(x, list) == \E i \in 1..Len(list) : list[i] = x

\* mutant of NextRunLoop: a run time equal to from_time is accepted
RECURSIVE NextRunLoop_ge(_, _, _, _, _, _)
NextRunLoop_ge(hour, minute, weekdays, check_time, from_time, n) ==
    IF n = 0 THEN NoTime
    ELSE IF InList(weekday_of(check_time), weekdays)
         THEN IF hour \notin 0..23 \/ minute \notin 0..59
              THEN NoTime
              ELSE LET run_time == (check_time - (check_time % 86400))
                                   + hour * 3600 + minute * 60
                   IN  IF run_time >= from_time THEN run_time
                       ELSE NextRunLoop_ge(hour, minute, weekdays,
                                           check_time + 86400, from_time, n - 1)
         ELSE NextRunLoop_ge(hour, minute, weekdays, check_time + 86400, from_time, n - 1)

\* the for loop of calculate_next_run, n days left to look at
RECURSIVE NextRunLoop(_, _, _, _, _, _)
NextRunLoop(hour, minute, weekdays, check_time, from_time, n) ==
    IF n = 0 THEN NoTime
    ELSE IF InList(weekday_of(check_time), weekdays)
         THEN IF hour \notin 0..23 \/ minute \notin 0..59
              THEN NoTime  \* replace() raises ValueError, caught: return None
              ELSE LET run_time == (check_time - (check_time % 86400))
                                   + hour * 3600 + minute * 60
                   IN  IF run_time > from_time THEN run_time
                       ELSE NextRunLoop(hour, minute, weekdays,
                                        check_time + 86400, from_time, n - 1)
         ELSE NextRunLoop(hour, minute, weekdays, check_time + 86400, from_time, n - 1)

\* mutant of calculate_next_run: seven days are looked at, not eight
calculate_next_run_7days(schedule, from_time) ==
    LET hour     == py_int(schedule.hour)
        minute   == py_int(schedule.minute)
        weekdays == parse_weekday(schedule.weekday)
    IN  IF ~hour.ok \/ ~minute.ok \/ ~weekdays.ok THEN NoTime
        ELSE NextRunLoop(hour.val, minute.val, weekdays.days,
                         from_time - (from_time % 60), from_time, 7)

calculate_next_run(schedule, from_time) ==
    LET hour     == py_int(schedule.hour)
        minute   == py_int(schedule.minute)
        weekdays == parse_weekday(schedule.weekday)
    IN  IF ~hour.ok \/ ~minute.ok \/ ~weekdays.ok THEN NoTime
        ELSE NextRunLoop(hour.val, minute.val, weekdays.days,
                         from_time - (from_time % 60), from_time, 8)

(***************************************************************************)
(* crontab_manager.py: the Registry operations, as functions of the text    *)
(* get_crontab returned                                                     *)
(***************************************************************************)
\* get_crontab(): the table, or "" when `crontab -l` fails or times out
get_crontab(readOk) == IF readOk THEN table ELSE ""

\* mutant of add_schedule: no newline is put after a text that lacks one
add_schedule_nopad(crontab, schedule) ==
    crontab \o build_crontab_line(schedule) \o "\n"

\* the text add_schedule hands to set_crontab
add_schedule(crontab, schedule) ==
    LET new_line == build_crontab_line(schedule)
        padded   == IF crontab # "" /\ ~endswith(crontab, "\n")
                    THEN crontab \o "\n" ELSE crontab
    IN  padded \o new_line \o "\n"

\* mutant of FindTarget: the id is not compared
FindTarget_any(schedules, schedule_id, i) ==
    IF i > Len(schedules) THEN None ELSE schedules[i]

\* the first schedule of the list with this id, None if there is none
RECURSIVE FindTarget(_, _, _)
FindTarget(schedules, schedule_id, i) ==
    IF i > Len(schedules) THEN None
    ELSE IF schedules[i].id = schedule_id THEN schedules[i]
    ELSE FindTarget(schedules, schedule_id, i + 1)

\* mutant of KeepLines: a line is dropped only when it equals raw
RECURSIVE KeepLines_exact(_, _, _)
KeepLines_exact(lines, raw, i) ==
    IF i > Len(lines) THEN <<>>
    ELSE IF lines[i] # raw
         THEN <<lines[i]>> \o KeepLines_exact(lines, raw, i + 1)
         ELSE KeepLines_exact(lines, raw, i + 1)

\* the lines delete_schedule keeps
RECURSIVE KeepLines(_, _, _)
KeepLines(lines, raw, i) ==
    IF i > Len(lines) THEN <<>>
    ELSE IF ~contains(lines[i], raw)
         THEN <<lines[i]>> \o KeepLines(lines, raw, i + 1)
         ELSE KeepLines(lines, raw, i + 1)

\* found = FALSE: return False before any write; else the text handed to set_crontab
delete_schedule(crontab, schedule_id) ==
    LET target == FindTarget(extract_iptv_schedules(crontab), schedule_id, 1) IN
    IF target = None THEN [found |-> FALSE, content |-> crontab]
    ELSE [found   |-> TRUE,
          content |-> join("\n", KeepLines(split(crontab, "\n"), target.raw, 1))]

\* mutant of toggled_line: enabling strips the '#' characters only
toggled_line_hash(target) ==
    LET old_line == target.raw IN
    IF ~target.enabled
    THEN lstrip(old_line, {"#"})
    ELSE IF ~startswith(strip(old_line), "#")
         THEN "# " \o old_line
         ELSE old_line

\* mutant of toggled_line: enabling drops exactly the two characters "# "
toggled_line_two(target) ==
    LET old_line == target.raw IN
    IF ~target.enabled
    THEN SubSeq(old_line, 3, Len(old_line))
    ELSE IF ~startswith(strip(old_line), "#")
         THEN "# " \o old_line
         ELSE old_line

\* the line toggle_schedule writes in place of old_line
toggled_line(target) ==
    LET old_line == target.raw IN
    IF ~target.enabled
    THEN lstrip(old_line, {"#", " "})          \* now enabled: drop the leading #
    ELSE IF ~startswith(strip(old_line), "#")  \* now disabled: put # in front
         THEN "# " \o old_line
         ELSE old_line

toggle_schedule(crontab, schedule_id) ==
    LET target == FindTarget(extract_iptv_schedules(crontab), schedule_id, 1) IN
    IF target = None THEN [found |-> FALSE, content |-> crontab]
    ELSE [found   |-> TRUE,
          content |-> replace(crontab, target.raw, toggled_line(target))]

\* the schedule update_schedule builds from the caller's fields
update_new_schedule(updates) ==
    LET action == dict_get(updates, "action", "off") IN
    [minute  |-> dict_get(updates, "minute", "0"),
     hour    |-> dict_get(updates, "hour", "0"),
     day     |-> dict_get(updates, "day", "*"),
     month   |-> dict_get(updates, "month", "*"),
     weekday |-> dict_get(updates, "weekday", "*"),
     action  |-> action,
     enabled |-> dict_get(updates, "enabled", TRUE),
     command |-> IF action = "on"
                 THEN "/sbin/ip link set ens1 up && /usr/bin/logger \"IPTV RESTORED: manual schedule\""
                 ELSE script_path]

(***************************************************************************)
(* app.py: the manual timer.  The globals and the marker file as they are   *)
(* when the module has been imported and no request has been handled.       *)
(***************************************************************************)
MaxThreads == 2

\* the delayed_on_off threads set_timer can start, in the order it starts them
Threads == 1..MaxThreads

\* a thread that threading.Thread has not created yet
NoThread == [pc |-> "unborn", minutes |-> 0, wake |-> NoTime, fired |-> FALSE]

\* no request is being handled
NoReq == [op |-> "none", pc |-> "none", minutes |-> 0, activeAtBegin |-> FALSE]

\* no request has returned yet
\* inWindow: it returned after a set_timer, before that one's deadline, with no
\* cancel_timer and no other set_timer in between; endFuture: timer_end_time
\* was set and later than the clock when it returned; activeAtBegin:
\* timer_end_time was set when it began
NoLast ==
    [op |-> "none", result |-> "none", inWindow |-> FALSE, endFuture |-> FALSE,
     activeAtBegin |-> FALSE, app_is_main |-> FALSE]

\* afterStart: a set_timer has returned and no cancel_timer or set_timer has
\* begun since; startDeadline: the clock at that return plus its minutes;
\* afterCancel: a cancel_timer has returned and no set_timer has begun since;
\* endOwner / markerOwner: the thread that wrote timer_end_time / the file
\* as they are now, 0 if there is none.
NoHist ==
    [afterStart |-> FALSE, startDeadline |-> 0, afterCancel |-> FALSE,
     endOwner |-> 0, markerOwner |-> 0]

\* timer_thread = None, timer_end_time = None (app.py:22-23), no marker file
TimerIdle ==
    /\ timer_end_time = NoTime
    /\ timer_thread = 0
    /\ marker = FALSE
    /\ clock = 0
    /\ threads = [t \in Threads |-> NoThread]
    /\ req = NoReq
    /\ lastReq = NoLast
    /\ hist = NoHist

(***************************************************************************)
(* The Registry as a state machine: one action per call.  readOk is whether *)
(* `crontab -l` succeeds, writeOk whether `crontab -` does; a failed write  *)
(* leaves the table as it was.                                              *)
(***************************************************************************)
MaxOps == 2

\* the command create_schedule (app.py) gives an 'on' schedule
WebOnCommand ==
    "/sbin/ip link set ens1 up && /usr/bin/logger \"IPTV RESTORED: web schedule\""

AddInputs ==
    { [minute |-> "30", hour |-> "7", day |-> "*", month |-> "*", weekday |-> "1-5",
       action |-> "on", enabled |-> TRUE, command |-> WebOnCommand],
      [minute |-> "0", hour |-> "23", day |-> "*", month |-> "*", weekday |-> "*",
       action |-> "off", enabled |-> FALSE, command |-> script_path],
      [minute |-> "15", hour |-> "22", day |-> "*", month |-> "*", weekday |-> "0,6",
       action |-> "off", enabled |-> TRUE, command |-> "/bin/true"] }

UpdateInputs ==
    { [hour |-> "21", weekday |-> "1-5", enabled |-> FALSE] }

LineUp == "0 17 * * 1-5 /sbin/ip link set ens1 up"

InitialTables ==
    { "",
      "MAILTO=root\n" \o LineUp \o "\n# nightly backup\n#0 23 * * * /opt/iptvctl/check_and_off.sh\n",
      "PATH=/usr/bin\n# " \o LineUp \o "\n" \o LineUp,
      "1" \o LineUp \o "\n  " \o LineUp \o "  \n",
      "##  30 6 * * 0,6 /sbin/ip link set ens1 up\n0 1 * * 1 /usr/bin/backup.sh\n"
          \o "# 5 0 * * * /opt/iptvctl/check_and_off.sh\n" }

\* an id no line of the model hashes to
BogusId == 0

\* the ids a caller can have seen in a listing, and one that matches nothing
KnownIds ==
    LET schedules == extract_iptv_schedules(table) IN
    {schedules[i].id : i \in 1..Len(schedules)} \cup {BogusId}

\* What a completed call leaves behind for the properties: the text each
\* get_crontab returned (loaded, loaded2), the table before the call and after
\* its first write (before, mid), how many times set_crontab ran (writes),
\* what each set_crontab returned (saved, saved2) and what the call returned.
NoOp ==
    [op |-> "init", id |-> -1, schedule |-> None, loaded |-> "", before |-> "",
     mid |-> "", loaded2 |-> "", addTried |-> FALSE, writes |-> 0,
     saved |-> FALSE, saved2 |-> FALSE, result |-> FALSE]

Done(rec) ==
    /\ lastOp' = rec
    /\ prevOp' = lastOp
    /\ nops' = nops + 1
    /\ UNCHANGED <<calc, timerVars, calls>>

\* Each call binds what it computed once (\E over a singleton) and then
\* branches on whether `crontab -` succeeds.
AddSchedule ==
    /\ nops < MaxOps
    /\ \E schedule \in AddInputs, readOk \in BOOLEAN :
       \E crontab \in {get_crontab(readOk)} :
       \E content \in {add_schedule(crontab, schedule)} :
       \E writeOk \in BOOLEAN :
            /\ table' = IF writeOk THEN content ELSE table
            /\ Done([op |-> "add", id |-> -1, schedule |-> schedule,
                     loaded |-> crontab, before |-> table,
                     mid |-> IF writeOk THEN content ELSE table, loaded2 |-> "",
                     addTried |-> FALSE, writes |-> 1,
                     saved |-> writeOk, saved2 |-> FALSE, result |-> writeOk])

DeleteSchedule ==
    /\ nops < MaxOps
    /\ \E schedule_id \in KnownIds, readOk \in BOOLEAN :
       \E crontab \in {get_crontab(readOk)} :
       \E del \in {delete_schedule(crontab, schedule_id)} :
       \E writeOk \in BOOLEAN :
            /\ del.found \/ writeOk  \* set_crontab only runs for a target that was found
            /\ table' = IF del.found /\ writeOk THEN del.content ELSE table
            /\ Done([op |-> "delete", id |-> schedule_id, schedule |-> None,
                     loaded |-> crontab, before |-> table,
                     mid |-> IF del.found /\ writeOk THEN del.content ELSE table,
                     loaded2 |-> "", addTried |-> FALSE,
                     writes |-> IF del.found THEN 1 ELSE 0,
                     saved |-> del.found /\ writeOk, saved2 |-> FALSE,
                     result |-> IF del.found THEN writeOk ELSE FALSE])

ToggleSchedule ==
    /\ nops < MaxOps
    /\ \E schedule_id \in KnownIds, readOk \in BOOLEAN :
       \E crontab \in {get_crontab(readOk)} :
       \E tog \in {toggle_schedule(crontab, schedule_id)} :
       \E writeOk \in BOOLEAN :
            /\ tog.found \/ writeOk  \* set_crontab only runs for a target that was found
            /\ table' = IF tog.found /\ writeOk THEN tog.content ELSE table
            /\ Done([op |-> "toggle", id |-> schedule_id, schedule |-> None,
                     loaded |-> crontab, before |-> table,
                     mid |-> IF tog.found /\ writeOk THEN tog.content ELSE table,
                     loaded2 |-> "", addTried |-> FALSE,
                     writes |-> IF tog.found THEN 1 ELSE 0,
                     saved |-> tog.found /\ writeOk, saved2 |-> FALSE,
                     result |-> IF tog.found THEN writeOk ELSE FALSE])

\* delete_schedule, then (only if it returned True) add_schedule on a table
\* read again
UpdateSchedule ==
    /\ nops < MaxOps
    /\ \E schedule_id \in KnownIds, readOk \in BOOLEAN :
       \E crontab \in {get_crontab(readOk)} :
       \E del \in {delete_schedule(crontab, schedule_id)} :
       \E writeOk \in BOOLEAN, updates \in UpdateInputs,
          readOk2 \in BOOLEAN, writeOk2 \in BOOLEAN :
       \E deleted \in {del.found /\ writeOk} :
       \E mid \in {IF deleted THEN del.content ELSE table} :
       \E crontab2 \in {IF readOk2 THEN mid ELSE ""} :
       \E newsched \in {update_new_schedule(updates)} :
       \E content \in {add_schedule(crontab2, newsched)} :
            /\ del.found \/ writeOk
            /\ deleted \/ (readOk2 /\ writeOk2)  \* add_schedule only runs after a delete
            /\ table' = IF deleted /\ writeOk2 THEN content ELSE mid
            /\ Done([op |-> "update", id |-> schedule_id, schedule |-> newsched,
                     loaded |-> crontab, before |-> table, mid |-> mid,
                     loaded2 |-> IF deleted THEN crontab2 ELSE "",
                     addTried |-> deleted,
                     writes |-> IF ~del.found THEN 0 ELSE IF deleted THEN 2 ELSE 1,
                     saved |-> deleted, saved2 |-> deleted /\ writeOk2,
                     result |-> IF deleted THEN writeOk2 ELSE FALSE])

Init ==
    /\ table \in InitialTables
    /\ lastOp = NoOp
    /\ prevOp = NoOp
    /\ nops = 0
    /\ calc = None
    /\ TimerIdle
    /\ calls = <<>>

Next ==
    \/ AddSchedule
    \/ DeleteSchedule
    \/ ToggleSchedule
    \/ UpdateSchedule

Spec == Init /\ [][Next]_vars

(***************************************************************************)
(* crontab_manager.py: get_all_schedules                                    *)
(***************************************************************************)
\* sort_key of get_all_schedules
sort_key(schedule, now) ==
    LET next_run == calculate_next_run(schedule, now) IN
    IF next_run # NoTime THEN next_run ELSE datetime_max

\* mutant of sorted_insert: the item goes in front of the items with its key
sorted_insert_front(sorted, item, now) ==
    LET k == Cardinality({i \in 1..Len(sorted) :
                             sort_key(sorted[i], now) < sort_key(item, now)})
    IN  SubSeq(sorted, 1, k) \o <<item>> \o SubSeq(sorted, k + 1, Len(sorted))

\* one step of list.sort(key=sort_key), a stable sort: the item goes behind
\* the items already placed whose key is not greater
sorted_insert(sorted, item, now) ==
    LET k == Cardinality({i \in 1..Len(sorted) :
                             sort_key(sorted[i], now) <= sort_key(item, now)})
    IN  SubSeq(sorted, 1, k) \o <<item>> \o SubSeq(sorted, k + 1, Len(sorted))

\* schedules[1..n] sorted
RECURSIVE SortPrefix(_, _, _)
SortPrefix(schedules, n, now) ==
    IF n = 0 THEN <<>>
    ELSE sorted_insert(SortPrefix(schedules, n - 1, now), schedules[n], now)

\* what get_all_schedules returns for the text get_crontab returned
get_all_schedules(crontab, now) ==
    LET schedules == extract_iptv_schedules(crontab) IN
    SortPrefix(schedules, Len(schedules), now)

(***************************************************************************)
(* The calculator and the listing as state machines: the inputs are drawn   *)
(* in the initial state, one action applies the function.                   *)
(***************************************************************************)
\* instants of one week: every weekday, around the 17:00 slot and at the
\* ends of the day
FromTimes ==
    {d * 86400 + t : d \in 0..6, t \in {0, 61170, 61200, 61201, 86399}}

CalcSchedules ==
    [hour : {"0", "17", "23", "24", "x"}, minute : {"0", "59", "60"},
     weekday : {"*", "1-5", "0,6", "2", "7", "5-1"},
     day : {"*", "15"}, month : {"*", "6"}]

InitCalc ==
    /\ table = ""
    /\ lastOp = NoOp
    /\ prevOp = NoOp
    /\ nops = 0
    /\ calc \in [op : {"pending"}, schedule : CalcSchedules,
                 from_time : FromTimes, next_run : {NoTime}]
    /\ TimerIdle
    /\ calls = <<>>

CalculateNextRun ==
    /\ calc.op = "pending"
    /\ calc' = [calc EXCEPT !.op = "done",
                            !.next_run = calculate_next_run(calc.schedule,
                                                            calc.from_time)]
    /\ UNCHANGED <<table, lastOp, prevOp, nops, timerVars, calls>>

NextCalc == CalculateNextRun

SpecCalc == InitCalc /\ [][NextCalc]_vars

ListTables ==
    { "",
      "*/5 * * * * /sbin/ip link set ens1 up\n" \o LineUp
          \o "\n# 0 17 * * 1-5 /opt/iptvctl/check_and_off.sh\n"
          \o "30 6 * * 0,6 /sbin/ip link set ens1 up\n"
          \o "@reboot /opt/iptvctl/check_and_off.sh\n",
      "0 23 * * * /opt/iptvctl/check_and_off.sh\n0 8 * * 8 /sbin/ip link set ens1 up\n"
          \o "0 x * * * /sbin/ip link set ens1 up\n0 7 * * * /sbin/ip link set ens1 up\n"
          \o "MAILTO=root\n",
      "MAILTO=root\n" \o LineUp
          \o "\n# nightly backup\n#0 23 * * * /opt/iptvctl/check_and_off.sh\n" }

InitList ==
    /\ table \in ListTables
    /\ lastOp = NoOp
    /\ prevOp = NoOp
    /\ nops = 0
    /\ calc = None
    /\ TimerIdle
    /\ calls = <<>>

\* get_all_schedules(): now is datetime.now() at the call
GetAllSchedules ==
    /\ calc = None
    /\ \E now \in FromTimes, readOk \in BOOLEAN :
       \E crontab \in {get_crontab(readOk)} :
            calc' = [op |-> "listed", now |-> now, loaded |-> crontab,
                     result |-> get_all_schedules(crontab, now)]
    /\ UNCHANGED <<table, lastOp, prevOp, nops, timerVars, calls>>

NextList == GetAllSchedules

SpecList == InitList /\ [][NextList]_vars

(***************************************************************************)
(* Vocabulary of the properties                                             *)
(***************************************************************************)
\* the lines of a text: its pieces between newlines, without the empty piece
\* that follows a final newline
TextLines(text) ==
    LET pieces == split(text, "\n") IN
    IF pieces[Len(pieces)] = "" THEN SubSeq(pieces, 1, Len(pieces) - 1) ELSE pieces

\* a domain line in the glossary's sense: it names one of the two commands
IsDomainText(line) ==
    contains(line, "ip link set ens1") \/ contains(line, "check_and_off.sh")

\* the lines of a text that are not domain lines, in order
OtherLines(text) ==
    LET Other(line) == ~IsDomainText(line) IN SelectSeq(TextLines(text), Other)

\* the line is one extract_iptv_schedules turns into a record
IsRecordLine(line) ==
    /\ strip(line) # ""
    /\ is_iptv_line(strip(line))
    /\ parse_crontab_line(strip(line)) # None

\* some record of the text has this id
HasId(text, schedule_id) ==
    LET lines == split(text, "\n") IN
    \E k \in 1..Len(lines) :
        /\ IsRecordLine(lines[k])
        /\ py_hash_id(strip(lines[k])) = schedule_id

\* the index, among the pieces of the text, of the first record with this id
TargetIndex(text, schedule_id) ==
    LET lines  == split(text, "\n")
        Hit(k) == IsRecordLine(lines[k]) /\ py_hash_id(strip(lines[k])) = schedule_id
    IN  CHOOSE k \in 1..Len(lines) : Hit(k) /\ \A j \in 1..(k - 1) : ~Hit(j)

\* the raw text of the first record with this id
TargetRaw(text, schedule_id) ==
    strip(split(text, "\n")[TargetIndex(text, schedule_id)])

\* the text with only the first occurrence of old replaced by new
ReplaceFirst(text, old, new) ==
    LET k == Find(text, old, 1) IN
    IF k = 0 THEN text
    ELSE SubSeq(text, 1, k - 1) \o new \o SubSeq(text, k + Len(old), Len(text))

(***************************************************************************)
(* C1  After any Registry call (add, delete, update, toggle), also one      *)
(* during which get_crontab fails and yields "", every line of the table    *)
(* that is not a domain line is still in the table, unchanged and in the    *)
(* same relative order.  Stated per call: it then holds of any sequence.    *)
(***************************************************************************)
C1_UnrelatedLinesKept ==
    lastOp.op # "init" => OtherLines(table) = OtherLines(lastOp.before)

(***************************************************************************)
(* C4  delete(id), when a record with that id exists and the save succeeds, *)
(* returns true, and the new table is exactly the old lines that do not     *)
(* contain the first matching record's raw text, in their original order.   *)
(***************************************************************************)
C4_DeleteRemovesContainingLines ==
    (lastOp.op = "delete" /\ HasId(lastOp.loaded, lastOp.id) /\ lastOp.saved) =>
        LET raw        == TargetRaw(lastOp.loaded, lastOp.id)
            Keeps(line) == ~contains(line, raw)
        IN  /\ lastOp.result = TRUE
            /\ split(table, "\n") = SelectSeq(split(lastOp.loaded, "\n"), Keeps)

\* a delete that removed the target and a longer line containing its raw text
C4_Witness ==
    /\ lastOp.op = "delete" /\ lastOp.saved
    /\ lastOp.loaded = lastOp.before
    /\ Len(split(table, "\n")) + 2 <= Len(split(lastOp.before, "\n"))

(***************************************************************************)
(* C5  add(record), when the save succeeds, returns true and the new table  *)
(* is the old text, then a newline if that text was non-empty and did not   *)
(* end with one, then the serialized line and a newline.  The line is       *)
(* 'minute hour day month weekday command', command being the off-check     *)
(* script path when action = off and the caller's command otherwise, with   *)
(* '# ' in front exactly when enabled is false.  The old text is the text   *)
(* get_crontab returned to add.                                             *)
(***************************************************************************)
C5_ExpectedLine(schedule) ==
    (IF schedule.enabled THEN "" ELSE "# ")
    \o schedule.minute \o " " \o schedule.hour \o " " \o schedule.day \o " "
    \o schedule.month \o " " \o schedule.weekday \o " "
    \o (IF schedule.action = "off" THEN script_path ELSE schedule.command)

C6_NotFoundWritesNothing ==
    (lastOp.op \in {"delete", "toggle", "update"}
     /\ ~HasId(lastOp.before, lastOp.id)) =>
        /\ lastOp.result = FALSE
        /\ lastOp.writes = 0
        /\ table = lastOp.before
        /\ lastOp.addTried = FALSE

\* an update with an unknown id on a table that has records, read without failure
C6_Witness ==
    /\ lastOp.op = "update" /\ lastOp.id = BogusId
    /\ lastOp.loaded = lastOp.before
    /\ Len(extract_iptv_schedules(lastOp.before)) > 0

(***************************************************************************)
(* C7  toggle(id) changes the table in exactly one place: only the first    *)
(* occurrence of the target's raw line in the table text is replaced by the *)
(* new line, every later occurrence is left as it is.                       *)
(***************************************************************************)
C7_OnlyFirstOccurrenceReplaced ==
    (lastOp.op = "toggle" /\ lastOp.saved) =>
        LET target == FindTarget(extract_iptv_schedules(lastOp.loaded), lastOp.id, 1)
        IN  table = ReplaceFirst(lastOp.loaded, target.raw, toggled_line(target))

(***************************************************************************)
(* Vocabulary of the toggle properties                                      *)
(***************************************************************************)
\* s with x put in after its first i characters
InsertAt(s, i, x) == SubSeq(s, 1, i) \o x \o SubSeq(s, i + 1, Len(s))

\* how many whitespace characters a line starts with
Lead(line) == SkipIn(line, Whitespace, 1) - 1

\* the table line a saved toggle was aimed at, before and after the call
ToggledOld(op) == split(op.loaded, "\n")[TargetIndex(op.loaded, op.id)]

ToggledNew(op) == split(op.mid, "\n")[TargetIndex(op.loaded, op.id)]

C8_ToggledTwice ==
    /\ prevOp.op = "toggle" /\ prevOp.saved
    /\ lastOp.op = "toggle" /\ lastOp.saved
    /\ lastOp.id = py_hash_id(strip(ToggledNew(prevOp)))
    /\ TargetRaw(lastOp.loaded, lastOp.id) = strip(ToggledNew(prevOp))

Count(text, e) ==
    Cardinality({k \in 1..(Len(text) - Len(e) + 1) :
                    SubSeq(text, k, k + Len(e) - 1) = e})

AddedLine(op) == TextLines(op.mid)[Len(TextLines(op.mid))]

\* a saved add, then a saved delete of the id of the added line, the text add
\* started from having no line that contains the added line's raw text
C10_AddedThenDeleted ==
    /\ prevOp.op = "add" /\ prevOp.saved
    /\ lastOp.op = "delete" /\ lastOp.saved
    /\ lastOp.id = py_hash_id(strip(AddedLine(prevOp)))
    /\ \A k \in 1..Len(split(prevOp.loaded, "\n")) :
          ~contains(split(prevOp.loaded, "\n")[k], strip(AddedLine(prevOp)))

C2_Candidates ==
    LET hour   == py_int(calc.schedule.hour).val
        minute == py_int(calc.schedule.minute).val
        days   == parse_weekday(calc.schedule.weekday).days
        day0   == calc.from_time \div 86400
    IN  {t \in {(day0 + d) * 86400 + hour * 3600 + minute * 60 : d \in 0..7} :
            /\ t > calc.from_time
            /\ \E i \in 1..Len(days) : days[i] = (t \div 86400) % 7}

C2_InScope ==
    /\ calc # None /\ calc.op = "done"
    /\ py_int(calc.schedule.hour).ok /\ py_int(calc.schedule.hour).val \in 0..23
    /\ py_int(calc.schedule.minute).ok /\ py_int(calc.schedule.minute).val \in 0..59
    /\ parse_weekday(calc.schedule.weekday).ok

C2_NextRunIsEarliest ==
    C2_InScope =>
        LET today == (calc.from_time \div 86400) * 86400
                     + py_int(calc.schedule.hour).val * 3600
                     + py_int(calc.schedule.minute).val * 60
        IN  /\ C2_Candidates # {} =>
                /\ calc.next_run \in C2_Candidates
                /\ \A t \in C2_Candidates : calc.next_run <= t
            /\ C2_Candidates = {} => calc.next_run = NoTime
            /\ calc.schedule.weekday = "*" =>
                calc.next_run = IF today > calc.from_time THEN today
                                ELSE today + 86400

\* asked on a Tuesday at 17:00:00 sharp for a Tuesday 17:00 job restricted to
\* the 15th of June: the answer is the eighth day looked at
C2_Witness ==
    /\ C2_InScope
    /\ calc.schedule.weekday = "2" /\ calc.schedule.day = "15"
    /\ calc.from_time = 86400 + 61200
    /\ calc.next_run = calc.from_time + 7 * 86400

(***************************************************************************)
(* C3  listAll returns every parsable domain record of the table, enabled   *)
(* or disabled, exactly once, in ascending order of nextRun relative to one *)
(* 'now'; records whose nextRun is none come after all others; records with *)
(* equal nextRun, and the unschedulable ones among themselves, keep their   *)
(* table order.  The table is the text get_crontab returned.                *)
(***************************************************************************)
\* the one-to-one maps of 1..n
OneToOne(n) ==
    {p \in [1..n -> 1..n] : \A i, j \in 1..n : p[i] = p[j] => i = j}

C3_ListAllSortedStable ==
    (calc # None /\ calc.op = "listed") =>
        LET source == extract_iptv_schedules(calc.loaded)
            n      == Len(source)
            NextOf(schedule) == calculate_next_run(schedule, calc.now)
        IN  /\ Len(calc.result) = n
            /\ \E p \in OneToOne(n) :
                  /\ \A i \in 1..n : calc.result[i] = source[p[i]]
                  /\ \A i, j \in 1..n : i < j =>
                        LET a == NextOf(source[p[i]])
                            b == NextOf(source[p[j]])
                        IN  \/ a # NoTime /\ b = NoTime
                            \/ a # NoTime /\ b # NoTime /\ a < b
                            \/ a = b /\ p[i] < p[j]

\* a listing in which an unschedulable first line went last, behind an enabled
\* and a disabled record that tie
C3_Witness ==
    /\ calc # None /\ calc.op = "listed"
    /\ Len(calc.result) = 4
    /\ calc.result[4].minute = "*/5"
    /\ \E i \in 1..2 :
          /\ calc.result[i].enabled /\ ~calc.result[i + 1].enabled
          /\ calculate_next_run(calc.result[i], calc.now)
               = calculate_next_run(calc.result[i + 1], calc.now)

(***************************************************************************)
(* app.py: the manual timer as a state machine.  One request is handled at  *)
(* a time; each of its reads and writes of the globals is a step of its     *)
(* own, and the steps of the delayed_on_off threads come in between.  The   *)
(* clock counts minutes.                                                    *)
(***************************************************************************)
MaxMinutes == 2

MaxTime == 3

\* timer_thread.is_alive(): started and not yet returned from delayed_on_off
is_alive(t) == threads[t].pc \notin {"unborn", "done"}

\* `timer_thread and timer_thread.is_alive()`
thread_alive == timer_thread # 0 /\ is_alive(timer_thread)

\* the thread has not called time.sleep yet
BeforeSleep(t) == threads[t].pc \in {"on", "set_end", "marker", "sleep"}

\* the request returns
Return(op, result, app_is_main) ==
    /\ lastReq' = [op |-> op, result |-> result,
                   inWindow |-> hist.afterStart /\ clock < hist.startDeadline,
                   endFuture |-> timer_end_time # NoTime /\ timer_end_time > clock,
                   activeAtBegin |-> IF req = NoReq THEN timer_end_time # NoTime
                                     ELSE req.activeAtBegin,
                   app_is_main |-> app_is_main]
    /\ req' = NoReq

\* what the other specifications leave alone
RegistryIdle == UNCHANGED <<table, lastOp, prevOp, nops, calc, calls>>

\* time passes; the clock stops short of MaxTime while a thread is being
\* started or has yet to call time.sleep, so that every sleep ends by MaxTime
Tick ==
    /\ clock < MaxTime
    /\ (req.op = "set_timer" \/ \E t \in Threads : BeforeSleep(t))
          => clock + MaxMinutes < MaxTime
    /\ clock' = clock + 1
    /\ UNCHANGED <<timer_end_time, timer_thread, marker, threads, req, lastReq, hist>>
    /\ RegistryIdle

\* set_timer, lines 280-285: minutes <= 0 is refused; the timer of a thread
\* that is still alive is cleared
SetTimerClear ==
    /\ req = NoReq
    /\ \E minutes \in 0..MaxMinutes :
         IF minutes <= 0
         THEN /\ Return("set_timer", "invalid", FALSE)
              /\ UNCHANGED <<timer_end_time, hist>>
         ELSE /\ \E t \in Threads : threads[t].pc = "unborn"
              /\ clock + MaxMinutes <= MaxTime
              /\ req' = [op |-> "set_timer", pc |-> "start", minutes |-> minutes,
                         activeAtBegin |-> timer_end_time # NoTime]
              /\ timer_end_time' = IF thread_alive THEN NoTime ELSE timer_end_time
              /\ hist' = [hist EXCEPT !.afterStart = FALSE, !.startDeadline = 0,
                                      !.afterCancel = FALSE,
                                      !.endOwner = IF thread_alive THEN 0 ELSE @]
              /\ lastReq' = NoLast
    /\ UNCHANGED <<timer_thread, marker, clock, threads>>
    /\ RegistryIdle

\* set_timer, lines 288-296: the new thread is started and the request returns
SetTimerStart ==
    /\ req.op = "set_timer" /\ req.pc = "start"
    /\ \E t \in Threads :
         /\ threads[t].pc = "unborn"
         /\ \A u \in Threads : u < t => threads[u].pc # "unborn"
         /\ threads' = [threads EXCEPT ![t] = [pc |-> "on", minutes |-> req.minutes,
                                               wake |-> NoTime, fired |-> FALSE]]
         /\ timer_thread' = t
    /\ hist' = [hist EXCEPT !.afterStart = TRUE,
                            !.startDeadline = clock + req.minutes]
    /\ Return("set_timer", "ok", FALSE)
    /\ UNCHANGED <<timer_end_time, marker, clock>>
    /\ RegistryIdle

\* delayed_on_off, lines 156-159: the interface is switched on, the log written
ThreadOn ==
    /\ \E t \in Threads :
         /\ threads[t].pc = "on"
         /\ threads' = [threads EXCEPT ![t].pc = "set_end"]
    /\ UNCHANGED <<timer_end_time, timer_thread, marker, clock, req, lastReq, hist>>
    /\ RegistryIdle

\* delayed_on_off, line 162
ThreadSetEnd ==
    /\ \E t \in Threads :
         /\ threads[t].pc = "set_end"
         /\ threads' = [threads EXCEPT ![t].pc = "marker"]
         /\ timer_end_time' = clock + threads[t].minutes
         /\ hist' = [hist EXCEPT !.endOwner = t]
    /\ UNCHANGED <<timer_thread, marker, clock, req, lastReq>>
    /\ RegistryIdle

\* delayed_on_off, lines 165-169
ThreadWriteMarker ==
    /\ \E t \in Threads :
         /\ threads[t].pc = "marker"
         /\ threads' = [threads EXCEPT ![t].pc = "sleep"]
         /\ marker' = TRUE
         /\ hist' = [hist EXCEPT !.markerOwner = t]
    /\ UNCHANGED <<timer_end_time, timer_thread, clock, req, lastReq>>
    /\ RegistryIdle

\* delayed_on_off, line 172: time.sleep is called; from here on the thread
\* does not use minutes any more
ThreadSleep ==
    /\ \E t \in Threads :
         /\ threads[t].pc = "sleep"
         /\ threads' = [threads EXCEPT ![t].pc = "waiting", ![t].minutes = 0,
                                       ![t].wake = clock + threads[t].minutes]
    /\ UNCHANGED <<timer_end_time, timer_thread, marker, clock, req, lastReq, hist>>
    /\ RegistryIdle

\* mutant of fires_off: a thread whose timer was cleared does not switch off
fires_off_if_set(t) == timer_end_time # NoTime

\* delayed_on_off, line 175: the switch-off is not conditional on anything
fires_off(t) == TRUE

\* delayed_on_off, lines 172-175: time.sleep returns, the interface is switched off
ThreadOff ==
    /\ \E t \in Threads :
         /\ threads[t].pc = "waiting"
         /\ clock >= threads[t].wake
         /\ threads' = [threads EXCEPT ![t].pc = "clear",
                                       ![t].fired = fires_off(t)]
    /\ UNCHANGED <<timer_end_time, timer_thread, marker, clock, req, lastReq, hist>>
    /\ RegistryIdle

\* delayed_on_off, line 176: the assignment is not conditional on anything
clears_end(t) == TRUE

\* delayed_on_off, line 176
ThreadClearEnd ==
    /\ \E t \in Threads :
         /\ threads[t].pc = "clear"
         /\ threads' = [threads EXCEPT ![t].pc = "rm"]
         /\ timer_end_time' = IF clears_end(t) THEN NoTime ELSE timer_end_time
         /\ hist' = [hist EXCEPT !.endOwner = IF clears_end(t) THEN 0 ELSE @]
    /\ UNCHANGED <<timer_thread, marker, clock, req, lastReq>>
    /\ RegistryIdle

\* delayed_on_off, lines 179-182: the thread ends
ThreadRemoveMarker ==
    /\ \E t \in Threads :
         /\ threads[t].pc = "rm"
         /\ threads' = [threads EXCEPT ![t].pc = "done"]
         /\ marker' = FALSE
         /\ hist' = [hist EXCEPT !.markerOwner = 0]
    /\ UNCHANGED <<timer_end_time, timer_thread, clock, req, lastReq>>
    /\ RegistryIdle

\* cancel_timer, lines 201-205
CancelRemoveMarker ==
    /\ req = NoReq
    /\ req' = [op |-> "cancel_timer", pc |-> "check", minutes |-> 0,
               activeAtBegin |-> timer_end_time # NoTime]
    /\ marker' = FALSE
    /\ hist' = [hist EXCEPT !.afterStart = FALSE, !.startDeadline = 0,
                            !.markerOwner = 0]
    /\ lastReq' = NoLast
    /\ UNCHANGED <<timer_end_time, timer_thread, clock, threads>>
    /\ RegistryIdle

\* cancel_timer, lines 207-212: what it returns
cancel_result == thread_alive

\* cancel_timer, lines 207-212
CancelClear ==
    /\ req.op = "cancel_timer" /\ req.pc = "check"
    /\ timer_end_time' = NoTime
    /\ hist' = [hist EXCEPT !.afterCancel = TRUE, !.endOwner = 0]
    /\ Return("cancel_timer", IF cancel_result THEN "true" ELSE "false", FALSE)
    /\ UNCHANGED <<timer_thread, marker, clock, threads>>
    /\ RegistryIdle

\* get_timer_status, lines 187-188
StatusRead ==
    /\ req = NoReq
    /\ IF timer_end_time = NoTime
       THEN Return("get_timer_status", "none", FALSE)
       ELSE /\ req' = [op |-> "get_timer_status", pc |-> "remaining", minutes |-> 0,
                       activeAtBegin |-> TRUE]
            /\ lastReq' = NoLast
    /\ UNCHANGED <<timer_end_time, timer_thread, marker, clock, threads, hist>>
    /\ RegistryIdle

\* get_timer_status, lines 190-195: the global is read again; None - float
\* raises TypeError
StatusRemaining ==
    /\ req.op = "get_timer_status" /\ req.pc = "remaining"
    /\ IF timer_end_time = NoTime
       THEN /\ Return("get_timer_status", "error", FALSE)
            /\ UNCHANGED <<timer_end_time, hist>>
       ELSE IF timer_end_time - clock <= 0
       THEN /\ timer_end_time' = NoTime
            /\ hist' = [hist EXCEPT !.endOwner = 0]
            /\ Return("get_timer_status", "none", FALSE)
       ELSE /\ Return("get_timer_status", "seconds", FALSE)
            /\ UNCHANGED <<timer_end_time, hist>>
    /\ UNCHANGED <<timer_thread, marker, clock, threads>>
    /\ RegistryIdle

\* app.should_skip_crontab_off, line 221
SkipRead ==
    /\ req = NoReq
    /\ IF timer_end_time = NoTime
       THEN Return("should_skip_crontab_off", "false", TRUE)
       ELSE /\ req' = [op |-> "should_skip_crontab_off", pc |-> "remaining",
                       minutes |-> 0, activeAtBegin |-> TRUE]
            /\ lastReq' = NoLast
    /\ UNCHANGED <<timer_end_time, timer_thread, marker, clock, threads, hist>>
    /\ RegistryIdle

\* app.should_skip_crontab_off, lines 222-225: the global is read again;
\* None - float raises TypeError
SkipRemaining ==
    /\ req.op = "should_skip_crontab_off" /\ req.pc = "remaining"
    /\ Return("should_skip_crontab_off",
              IF timer_end_time = NoTime THEN "error"
              ELSE IF timer_end_time - clock > 0 THEN "true" ELSE "false",
              TRUE)
    /\ UNCHANGED <<timer_end_time, timer_thread, marker, clock, threads, hist>>
    /\ RegistryIdle

\* crontab_manager.should_skip_crontab_off, lines 359-365.  `from app import
\* timer_end_time` copies the global once.  When the program was started as
\* `python app.py` its module is __main__ and the import loads a second copy
\* of app.py, whose timer_end_time is None; when it was imported as `app`
\* the copy is the timer's value.  crontab_manager does not import time, so
\* line 362 raises NameError.
SkipCrontabManager ==
    /\ req = NoReq
    /\ \E app_is_main \in BOOLEAN :
       \E seen \in {IF app_is_main THEN NoTime ELSE timer_end_time} :
            Return("crontab_manager.should_skip_crontab_off",
                   IF seen = NoTime THEN "false" ELSE "error", app_is_main)
    /\ UNCHANGED <<timer_end_time, timer_thread, marker, clock, threads, hist>>
    /\ RegistryIdle

InitTimer ==
    /\ table = ""
    /\ lastOp = NoOp
    /\ prevOp = NoOp
    /\ nops = 0
    /\ calc = None
    /\ calls = <<>>
    /\ TimerIdle

NextTimer ==
    \/ Tick
    \/ SetTimerClear
    \/ SetTimerStart
    \/ ThreadOn
    \/ ThreadSetEnd
    \/ ThreadWriteMarker
    \/ ThreadSleep
    \/ ThreadOff
    \/ ThreadClearEnd
    \/ ThreadRemoveMarker
    \/ CancelRemoveMarker
    \/ CancelClear
    \/ StatusRead
    \/ StatusRemaining
    \/ SkipRead
    \/ SkipRemaining
    \/ SkipCrontabManager

SpecTimer == InitTimer /\ [][NextTimer]_vars

(***************************************************************************)
(* C11  Once set_timer(minutes) with minutes > 0 has returned, every        *)
(* should_skip_crontab_off() made before the deadline (the clock at the     *)
(* return plus minutes), with no cancel_timer and no other set_timer in     *)
(* between, returns True, and get_timer_status() does not return None, in   *)
(* every interleaving with the thread set_timer started.                    *)
(***************************************************************************)
C11_SuppressedAfterStart ==
    lastReq.inWindow =>
        /\ lastReq.op = "should_skip_crontab_off" => lastReq.result = "true"
        /\ lastReq.op = "get_timer_status" => lastReq.result = "seconds"

(***************************************************************************)
(* C12  After cancel_timer() has returned and until the next set_timer,     *)
(* should_skip_crontab_off() returns False, timer_end_time stays None and   *)
(* the marker file stays absent, in every interleaving with the thread of   *)
(* an earlier set_timer.                                                    *)
(***************************************************************************)
C12_ClearedAfterCancel ==
    hist.afterCancel =>
        /\ timer_end_time = NoTime
        /\ ~marker
        /\ lastReq.op = "should_skip_crontab_off" => lastReq.result = "false"

(***************************************************************************)
(* C13  Each should_skip_crontab_off (app's and crontab_manager's) returns  *)
(* True if and only if timer_end_time is set and lies strictly in the       *)
(* future when it returns, False otherwise, and never ends in an error.     *)
(***************************************************************************)
C13_SkipIffEndInFuture ==
    lastReq.op \in {"should_skip_crontab_off",
                    "crontab_manager.should_skip_crontab_off"} =>
        /\ lastReq.result # "error"
        /\ lastReq.result = "true" <=> lastReq.endFuture

(***************************************************************************)
(* C14  cancel_timer() returns True exactly when timer_end_time was set at  *)
(* the moment of the call and False when it was None.                       *)
(***************************************************************************)
C14_CancelReturnsWasActive ==
    lastReq.op = "cancel_timer" =>
        (lastReq.result = "true" <=> lastReq.activeAtBegin)

(***************************************************************************)
(* C19  The timer_end_time and the marker file written by the thread of a   *)
(* set_timer are cleared only by that thread's own expiry, by cancel_timer  *)
(* or by a newer set_timer: the expiry of a superseded thread leaves the    *)
(* end time and the marker of the newer thread in place.                    *)
(***************************************************************************)
C19_ExpiryClearsOnlyItsOwn ==
    [][\A t \in Threads :
          /\ (threads[t].pc = "clear" /\ threads'[t].pc = "rm"
              /\ timer_end_time # NoTime /\ timer_end_time' = NoTime)
                => hist.endOwner = t
          /\ (threads[t].pc = "rm" /\ threads'[t].pc = "done"
              /\ marker /\ ~marker')
                => hist.markerOwner = t]_vars

\* The threads are scheduled by the operating system and the clock runs on:
\* no step of a delayed_on_off thread that can be taken is put off for ever,
\* and a set_timer request that has begun goes on to start its thread.
FairTimer ==
    /\ WF_vars(Tick)
    /\ WF_vars(SetTimerStart)
    /\ WF_vars(ThreadOn)
    /\ WF_vars(ThreadSetEnd)
    /\ WF_vars(ThreadWriteMarker)
    /\ WF_vars(ThreadSleep)
    /\ WF_vars(ThreadOff)
    /\ WF_vars(ThreadClearEnd)
    /\ WF_vars(ThreadRemoveMarker)

SpecTimerFair == InitTimer /\ [][NextTimer]_vars /\ FairTimer

MaxTerms == 2

\* a term is <<a>>, a single value, or <<a, b>>, the range a-b
WeekdayTerms ==
    {<<a>> : a \in 0..8} \cup {<<a, b>> : a, b \in 0..6}

\* the weekday fields: <<>> stands for '*'
WeekdayFields ==
    UNION {[1..n -> WeekdayTerms] : n \in 0..MaxTerms}

DigitText(n) == SubSeq(Digits, n + 1, n + 1)

TermText(term) ==
    IF Len(term) = 1 THEN DigitText(term[1])
    ELSE DigitText(term[1]) \o "-" \o DigitText(term[2])

RECURSIVE TermsText(_, _)
TermsText(terms, i) ==
    IF i > Len(terms) THEN ""
    ELSE (IF i > 1 THEN "," ELSE "") \o TermText(terms[i]) \o TermsText(terms, i + 1)

\* the text of a weekday field
WeekdayText(terms) == IF Len(terms) = 0 THEN "*" ELSE TermsText(terms, 1)

\* Monday 17:00:00 sharp, Wednesday 00:00:59 and Sunday 23:59:59
WeekdayFromTimes == {61200, 2 * 86400 + 59, 6 * 86400 + 86399}

InitWeekday ==
    /\ table = ""
    /\ lastOp = NoOp
    /\ prevOp = NoOp
    /\ nops = 0
    /\ \E terms \in WeekdayFields, hour \in {"17", "24", "x"}, minute \in {"0", "60"},
          from_time \in WeekdayFromTimes :
         calc = [op |-> "pending", terms |-> terms,
                 schedule |-> [hour |-> hour, minute |-> minute,
                               weekday |-> WeekdayText(terms),
                               day |-> "*", month |-> "*"],
                 from_time |-> from_time,
                 weekdays |-> [ok |-> FALSE, days |-> <<>>],
                 next_run |-> NoTime]
    /\ TimerIdle
    /\ calls = <<>>

\* parse_weekday and calculate_next_run applied to the record
ParseWeekday ==
    /\ calc.op = "pending"
    /\ calc' = [calc EXCEPT !.op = "done",
                            !.weekdays = parse_weekday(calc.schedule.weekday),
                            !.next_run = calculate_next_run(calc.schedule,
                                                            calc.from_time)]
    /\ UNCHANGED <<table, lastOp, prevOp, nops, timerVars, calls>>

NextWeekday == ParseWeekday

SpecWeekday == InitWeekday /\ [][NextWeekday]_vars

(***************************************************************************)
(* C15 - C17: the weekday set                                               *)
(***************************************************************************)
\* the external values (Sunday = 0) a weekday field names: every term's
\* value, every value from a to b of a range
ExternalValues(terms) ==
    UNION {IF Len(terms[i]) = 1 THEN {terms[i][1]} ELSE terms[i][1]..terms[i][2]
           : i \in 1..Len(terms)}

\* external to internal (Monday = 0) numbering
ToInternal(n) == IF n = 0 THEN 6 ELSE n - 1

\* every value of the field is a weekday 0..6
ValuesInRange(terms) ==
    \A i \in 1..Len(terms) : \A j \in 1..Len(terms[i]) : terms[i][j] \in 0..6

\* no range of the field runs backwards
RangesAscend(terms) ==
    \A i \in 1..Len(terms) : Len(terms[i]) = 2 => terms[i][1] <= terms[i][2]

DaySet(weekdays) == {weekdays.days[i] : i \in 1..Len(weekdays.days)}

HourMinuteInRange(schedule) ==
    /\ py_int(schedule.hour).ok /\ py_int(schedule.hour).val \in 0..23
    /\ py_int(schedule.minute).ok /\ py_int(schedule.minute).val \in 0..59

\* C15: parse_weekday returns all seven days for '*' and otherwise exactly
\* the converted values of the terms of the field, a range a-b standing for
\* every value from a to b.
C15_WeekdaySetIsUnionOfTerms ==
    (calc.op = "done" /\ ValuesInRange(calc.terms)) =>
        /\ calc.weekdays.ok
        /\ DaySet(calc.weekdays) =
               IF Len(calc.terms) = 0 THEN 0..6
               ELSE {ToInternal(n) : n \in ExternalValues(calc.terms)}

\* a list of a range through Sunday and a single value has been parsed
C15_Witness ==
    /\ calc.op = "done"
    /\ calc.terms = <<<<0, 2>>, <<6>>>>
    /\ DaySet(calc.weekdays) = {6, 0, 1, 5}

\* C16 as stated: '1-5' gives the internal days 1..5, Tuesday to Saturday.
C16_OneToFiveIsTueToSat ==
    (calc.op = "done" /\ calc.schedule.weekday = "1-5") =>
        DaySet(calc.weekdays) = {1, 2, 3, 4, 5}

\* C16 amended: '1-5' gives the internal days 0..4, Monday to Friday.
C16_OneToFiveIsMonToFri ==
    (calc.op = "done" /\ calc.schedule.weekday = "1-5") =>
        /\ calc.weekdays.ok
        /\ DaySet(calc.weekdays) = {0, 1, 2, 3, 4}

C16_Witness ==
    /\ calc.op = "done"
    /\ calc.schedule.weekday = "1-5"
    /\ Len(calc.weekdays.days) = 5

\* C17 as stated: for a weekday field of values 0..6 the set is never empty,
\* and with hour and minute in range calculate_next_run returns an instant.
C17_NeverEmptyNeverNone ==
    (calc.op = "done" /\ ValuesInRange(calc.terms)) =>
        /\ DaySet(calc.weekdays) # {}
        /\ HourMinuteInRange(calc.schedule) => calc.next_run # NoTime

\* C17 amended: the same for the fields none of whose ranges runs backwards.
C17_NeverEmptyUnlessReversed ==
    (calc.op = "done" /\ ValuesInRange(calc.terms) /\ RangesAscend(calc.terms)) =>
        /\ DaySet(calc.weekdays) # {}
        /\ HourMinuteInRange(calc.schedule) => calc.next_run # NoTime

\* Monday 17:00 asked for on Monday 17:00:00: the run is a week later, found
\* on the last of the eight days
C17_Witness ==
    /\ calc.op = "done"
    /\ calc.schedule.weekday = "1"
    /\ calc.schedule.hour = "17" /\ calc.schedule.minute = "0"
    /\ calc.from_time = 61200
    /\ calc.next_run = 7 * 86400 + 61200

(***************************************************************************)
(* Two Registry calls in flight at once: the development server handles     *)
(* each request in a thread of its own, and a call is a get_crontab step    *)
(* followed, later, by a set_crontab step.                                  *)
(***************************************************************************)
MaxCallers == 2

Callers == 1..MaxCallers

\* a call that has not begun
NoCall ==
    [op |-> "none", pc |-> "idle", schedule |-> None, id |-> -1, crontab |-> "",
     readOk |-> FALSE, overlapped |-> FALSE, result |-> FALSE]

\* the call has read the table and not written it yet
InFlight(c) == calls[c].pc = "loaded"

RaceIdle == UNCHANGED <<lastOp, prevOp, nops, calc, timerVars>>

InitRace ==
    /\ table \in InitialTables
    /\ lastOp = NoOp
    /\ prevOp = NoOp
    /\ nops = 0
    /\ calc = None
    /\ TimerIdle
    /\ calls = [c \in Callers |-> NoCall]

\* add_schedule, line 155: crontab = get_crontab()
AddLoad ==
    /\ \E c \in Callers, schedule \in AddInputs, readOk \in BOOLEAN :
         /\ calls[c].pc = "idle"
         /\ calls' = [calls EXCEPT ![c] =
                [op |-> "add", pc |-> "loaded", schedule |-> schedule, id |-> -1,
                 crontab |-> get_crontab(readOk), readOk |-> readOk,
                 overlapped |-> \E d \in Callers \ {c} : InFlight(d),
                 result |-> FALSE]]
    /\ UNCHANGED table
    /\ RaceIdle

\* add_schedule, lines 158-163: the new text is built from what was read
\* and handed to set_crontab
AddSave ==
    /\ \E c \in Callers, writeOk \in BOOLEAN :
         /\ calls[c].op = "add" /\ InFlight(c)
         /\ table' = IF writeOk
                     THEN add_schedule(calls[c].crontab, calls[c].schedule)
                     ELSE table
         /\ calls' = [calls EXCEPT ![c].pc = "done", ![c].result = writeOk]
    /\ RaceIdle

\* toggle_schedule, line 219: crontab = get_crontab()
ToggleLoad ==
    /\ \E c \in Callers, schedule_id \in KnownIds, readOk \in BOOLEAN :
         /\ calls[c].pc = "idle"
         /\ calls' = [calls EXCEPT ![c] =
                [op |-> "toggle", pc |-> "loaded", schedule |-> None,
                 id |-> schedule_id,
                 crontab |-> get_crontab(readOk), readOk |-> readOk,
                 overlapped |-> \E d \in Callers \ {c} : InFlight(d),
                 result |-> FALSE]]
    /\ UNCHANGED table
    /\ RaceIdle

\* toggle_schedule, lines 220-247: False without a write when the id is not
\* in the text that was read
ToggleSave ==
    /\ \E c \in Callers, writeOk \in BOOLEAN :
       \E tog \in {toggle_schedule(calls[c].crontab, calls[c].id)} :
         /\ calls[c].op = "toggle" /\ InFlight(c)
         /\ tog.found \/ writeOk
         /\ table' = IF tog.found /\ writeOk THEN tog.content ELSE table
         /\ calls' = [calls EXCEPT ![c].pc = "done",
                                   ![c].result = tog.found /\ writeOk]
    /\ RaceIdle

NextRace ==
    \/ AddLoad
    \/ AddSave
    \/ ToggleLoad
    \/ ToggleSave

SpecRace == InitRace /\ [][NextRace]_vars

(***************************************************************************)
(* C20: calls that interleave, calls that follow one another                *)
(***************************************************************************)
\* the lines of the table, without the whitespace around them
TableLines ==
    LET lines == split(table, "\n") IN [i \in 1..Len(lines) |-> strip(lines[i])]

\* the line toggle_schedule looked for in the text it read
ToggleTarget(c) ==
    FindTarget(extract_iptv_schedules(calls[c].crontab), calls[c].id, 1)

\* the line the call writes: the added line, the toggled line
EditLine(c) ==
    IF calls[c].op = "add" THEN build_crontab_line(calls[c].schedule)
    ELSE toggled_line(ToggleTarget(c))

\* the edit of the call is in the table: the added line is one of its lines;
\* the toggled line is, and the line it was before is not
EditPresent(c) ==
    /\ InList(EditLine(c), TableLines)
    /\ calls[c].op = "toggle" =>
           \/ ToggleTarget(c).raw = EditLine(c)
           \/ ~InList(ToggleTarget(c).raw, TableLines)

\* two adds of different lines, or an add and a toggle of another line
DistinctEdits(c, d) ==
    /\ "add" \in {calls[c].op, calls[d].op}
    /\ EditLine(c) # EditLine(d)
    /\ calls[c].op = "toggle" => ToggleTarget(c).raw # EditLine(d)
    /\ calls[d].op = "toggle" => ToggleTarget(d).raw # EditLine(c)

AllReturnedTrue ==
    \A c \in Callers : calls[c].pc = "done" /\ calls[c].result

Sequential == \A c \in Callers : ~calls[c].overlapped

\* C20: when the calls ran one after the other and each returned True, the
\* table holds the edit of each.
C20_SequentialKeepsBothEdits ==
    (/\ AllReturnedTrue
     /\ Sequential
     /\ \A c, d \in Callers : c # d => DistinctEdits(c, d))
        => \A c \in Callers : EditPresent(c)

\* the same for calls each of which read the table successfully
C20_SequentialKeepsBothEditsWhenRead ==
    (/\ AllReturnedTrue
     /\ Sequential
     /\ \A c \in Callers : calls[c].readOk
     /\ \A c, d \in Callers : c # d => DistinctEdits(c, d))
        => \A c \in Callers : EditPresent(c)

\* calls that interleaved and read the table successfully, each returned
\* True, and the edit of one is not in the table
C20_LostUpdate ==
    /\ AllReturnedTrue
    /\ ~Sequential
    /\ \A c \in Callers : calls[c].readOk
    /\ \A c, d \in Callers : c # d => DistinctEdits(c, d)
    /\ \E c \in Callers : ~EditPresent(c)
    /\ \E c \in Callers : EditPresent(c)

(***************************************************************************)
(* C21: a call that returns False                                           *)
(***************************************************************************)
\* C21: when add_schedule, delete_schedule, toggle_schedule or
\* update_schedule returns False, the table is the text it was before the
\* call; after an update that returned False the record with the id is
\* still in the table.
C21_FalseLeavesTable ==
    (lastOp.op \in {"add", "delete", "toggle", "update"} /\ ~lastOp.result) =>
        /\ table = lastOp.before
        /\ (lastOp.op = "update" /\ HasId(lastOp.before, lastOp.id))
               => HasId(table, lastOp.id)

\* the same for the calls that are a single load and save
C21_FalseLeavesTableSingleSave ==
    (lastOp.op \in {"add", "delete", "toggle"} /\ ~lastOp.result) =>
        table = lastOp.before

\* update_schedule returned False after its delete_schedule was saved: the
\* record is gone and the same call finds no such id
C21_UpdateHalfApplied ==
    /\ lastOp.op = "update" /\ ~lastOp.result
    /\ lastOp.saved /\ ~lastOp.saved2
    /\ HasId(lastOp.before, lastOp.id)
    /\ ~HasId(table, lastOp.id)

(***************************************************************************)
(* add_schedule followed by extract_iptv_schedules, for a program installed *)
(* in any of several directories                                            *)
(***************************************************************************)
\* where the program may be installed: os.path.dirname(os.path.abspath(__file__))
ScriptDirs ==
    {"/opt/iptvctl", "/home/pi/iptvctl", "/srv/backup/iptvctl",
     "/home/pi/my tools/iptv", "/opt/iptv#2"}

\* the commands of an 'on' schedule: build_crontab_line's default,
\* create_schedule's (app.py) and update_schedule's
OnCommands ==
    {"/sbin/ip link set ens1 up", WebOnCommand,
     "/sbin/ip link set ens1 up && /usr/bin/logger \"IPTV RESTORED: manual schedule\""}

\* the schedules create_schedule and update_schedule hand to add_schedule
RoundSchedules(script_dir) ==
    {[minute |-> f.minute, hour |-> f.hour, day |-> f.day, month |-> f.month,
      weekday |-> f.weekday, action |-> "on", enabled |-> f.enabled,
      command |-> c] :
        f \in [minute : {"0", "30"}, hour : {"0", "17"}, day : {"*", "15"},
               month : {"*"}, weekday : {"*", "1-5", "0,6"}, enabled : BOOLEAN],
        c \in OnCommands}
    \cup
    {[minute |-> f.minute, hour |-> f.hour, day |-> f.day, month |-> f.month,
      weekday |-> f.weekday, action |-> "off", enabled |-> f.enabled,
      command |-> script_dir \o "/" \o "check_and_off.sh"] :
        f \in [minute : {"0", "30"}, hour : {"0", "17"}, day : {"*", "15"},
               month : {"*"}, weekday : {"*", "1-5", "0,6"}, enabled : BOOLEAN]}

\* tables without a line of the domain, with and without a final newline
RoundTables == {"", "MAILTO=root", "PATH=/usr/bin\n"}

InitRound ==
    /\ table \in RoundTables
    /\ lastOp = NoOp
    /\ prevOp = NoOp
    /\ nops = 0
    /\ \E script_dir \in ScriptDirs :
       \E schedule \in RoundSchedules(script_dir) :
         calc = [op |-> "pending", script_dir |-> script_dir,
                 schedule |-> schedule, schedules |-> <<>>]
    /\ TimerIdle
    /\ calls = <<>>

\* add_schedule(schedule) with both crontab commands succeeding, then
\* extract_iptv_schedules(get_crontab())
AddThenExtract ==
    /\ calc.op = "pending"
    /\ \E new_line \in {build_crontab_line_at(calc.script_dir, calc.schedule)} :
       \E crontab \in {(IF table # "" /\ ~endswith(table, "\n")
                        THEN table \o "\n" ELSE table) \o new_line \o "\n"} :
         /\ table' = crontab
         /\ calc' = [calc EXCEPT !.op = "done",
                                 !.schedules = extract_iptv_schedules(crontab)]
    /\ UNCHANGED <<lastOp, prevOp, nops, timerVars, calls>>

NextRound == AddThenExtract

SpecRound == InitRound /\ [][NextRound]_vars

(***************************************************************************)
(* C22: serialise, then parse                                               *)
(***************************************************************************)
SameFields(parsed, schedule) ==
    /\ parsed.minute = schedule.minute
    /\ parsed.hour = schedule.hour
    /\ parsed.day = schedule.day
    /\ parsed.month = schedule.month
    /\ parsed.weekday = schedule.weekday
    /\ parsed.action = schedule.action
    /\ parsed.enabled = schedule.enabled

\* C22: the line add_schedule wrote is extracted as a schedule, and the
\* schedule has the minute, hour, day, month, weekday, action and enabled
\* values of the one that was added, wherever the program is installed.
C22_RoundTrip ==
    calc.op = "done" =>
        /\ Len(calc.schedules) = 1
        /\ SameFields(calc.schedules[1], calc.schedule)

\* the same for the installation directories without 'up' in their path
C22_RoundTripWithoutUpInPath ==
    (calc.op = "done" /\ ~contains(calc.script_dir, "up")) =>
        /\ Len(calc.schedules) = 1
        /\ SameFields(calc.schedules[1], calc.schedule)

\* an off schedule added by a program installed under a path with 'up' in
\* it comes back as an on schedule
C22_OffReadAsOn ==
    /\ calc.op = "done"
    /\ calc.schedule.action = "off"
    /\ Len(calc.schedules) = 1
    /\ calc.schedules[1].action = "on"
    /\ calc.schedules[1].command = calc.script_dir \o "/" \o "check_and_off.sh"

====
